---- MODULE Spec2Model ----
(***************************************************************************)
(* Price-resolution pipeline of mtg-card-search: the printing selector     *)
(* (card-utils), the store price fetcher with rate-limit retry (utils.js), *)
(* the deck evaluation loop (deck-evaluator.js), the store pricing         *)
(* endpoints and the 401 Games price extraction (server.js), the slug      *)
(* derivation and the store URL builders (utils.js), the deck list parser  *)
(* (card-utils) and the card search page (script.js).                      *)
(*                                                                         *)
(* JavaScript objects are functions from key strings to values, so that a  *)
(* missing key is a key outside the DOMAIN.  Strings the code inspects     *)
(* character by character are sequences of one-character strings.  Prices  *)
(* are integers (a number of cents); an absent value (null / undefined) is *)
(* the empty object.                                                       *)
(***************************************************************************)
EXTENDS Integers, Sequences, FiniteSets, TLC

VARIABLES
    cards,              \* the parsed deck lines of the textarea
    excludeBasicLands,  \* checkbox "excludeBasicLands"
    excludeSpecial,     \* checkbox "excludeSpecialPrintings"
    catalog,            \* the printing lists the card database may answer with in this run
    endpoint,           \* store -> the answers the store endpoint may give in this run
    throttleLeft,       \* number of HTTP 429 answers the environment may still give
    pc,                 \* position of evaluateDeck / of the selector run
    filteredCards,      \* evaluateDeck: cards after the basic-land filter
    results,            \* evaluateDeck: results pushed so far
    disabled,           \* evaluateBtn.disabled
    errorDeck,          \* text shown by showError ("" when hidden)
    displayed,          \* the list handed to displayResults (<<>> before)
    printings,          \* findCheapestPrintingForDeck: the catalog answer
    cheapestCard,       \* the printing chosen by findCheapestPrinting
    calls,              \* the fetchStorePrice calls of fetchAllStorePrices
    issued,             \* number of store requests issued for the current line
    delays,             \* number of inter-line delays that have elapsed
    req,                \* server: the route of the request being handled
    upstream,           \* server: what fetching and scraping the store page gives
    res,                \* server: the response sent (status and JSON body)
    str,                \* toKebabCase: the argument
    slug,               \* toKebabCase: the value returned
    urlCard,            \* URL building: the printing (the argument card)
    storeKey,           \* URL building: the store key
    frameEffect,        \* the descriptor handed to normalizeFrameEffect / detected
    normalizedEffect,   \* the token normalizeFrameEffect returned
    apiUrl,             \* the URL buildStoreApiUrl returned
    scrapeUrl,          \* the product page the matching server route fetches
    directUrl,          \* the URL buildDirectStoreUrl returned
    deckText,           \* the text of the deck list textarea handed to parseDeckList
    page,               \* the 401 Games product page handed to find401GamesNearMintPrice
    nearMintPrice,      \* the price find401GamesNearMintPrice returned, in hundredths
    sidebar,            \* search page: the printings listed in the sidebar
    links,              \* search page: the store links section
    priceCells,         \* search page: the price elements of the stores
    highlight,          \* search page: the link carrying the class cheapest-store
    pendingPrices,      \* search page: the fetchAllStorePrices promises not yet resolved
    displayCount        \* search page: the number of calls of displayCard so far

vars == <<cards, excludeBasicLands, excludeSpecial, catalog, endpoint, throttleLeft, pc,
          filteredCards, results, disabled, errorDeck, displayed, printings,
          cheapestCard, calls, issued, delays, req, upstream, res, str, slug,
          urlCard, storeKey, frameEffect, normalizedEffect, apiUrl, scrapeUrl, directUrl,
          deckText, page, nearMintPrice,
          sidebar, links, priceCells, highlight, pendingPrices, displayCount>>

\* The state of the deck evaluator page, pc apart
deck == <<cards, excludeBasicLands, excludeSpecial, catalog, endpoint, throttleLeft,
          filteredCards, results, disabled, errorDeck, displayed, printings,
          cheapestCard, calls, issued, delays>>

\* The state of the pricing server
server == <<req, upstream, res>>

\* The state of the slug derivation
kebab == <<str, slug>>

\* The state of the URL building
urls == <<urlCard, storeKey, frameEffect, normalizedEffect, apiUrl, scrapeUrl, directUrl>>

\* The state outside the deck evaluator page
extract == <<page, nearMintPrice>>
search == <<sidebar, links, priceCells, highlight, pendingPrices, displayCount>>
aside == <<server, kebab, urls, deckText, extract, search>>

-----------------------------------------------------------------------------
(* Bounds of the model *)

MaxLines == 2          \* deck lines in one evaluation
MaxPrintings == 3      \* printings in one catalog answer (selector runs)
MaxThrottle == 1       \* 429 answers during a deck evaluation
MaxThrottleLine == 4   \* 429 answers during the pricing of a single line
MaxNameLen == 5        \* characters of a name handed to toKebabCase
MaxTextLen == 6        \* characters of a deck list handed to parseDeckList
MaxVariants == 2       \* variants in the scripts of a product page
MaxDisplays == 2       \* cards displayed on the search page in one run

-----------------------------------------------------------------------------
(* Values *)

\* null / undefined / an object without keys
NoValue == <<>>

Infinity == 1000000

\* Array.prototype.includes
Includes(arr, x) == \E i \in 1..Len(arr) : arr[i] = x

UpperToLower ==
    "A" :> "a" @@ "B" :> "b" @@ "C" :> "c" @@ "D" :> "d" @@ "E" :> "e" @@
    "F" :> "f" @@ "G" :> "g" @@ "H" :> "h" @@ "I" :> "i" @@ "J" :> "j" @@
    "K" :> "k" @@ "L" :> "l" @@ "M" :> "m" @@ "N" :> "n" @@ "O" :> "o" @@
    "P" :> "p" @@ "Q" :> "q" @@ "R" :> "r" @@ "S" :> "s" @@ "T" :> "t" @@
    "U" :> "u" @@ "V" :> "v" @@ "W" :> "w" @@ "X" :> "x" @@ "Y" :> "y" @@
    "Z" :> "z"

\* String.prototype.toLowerCase
toLowerCase(s) ==
    [i \in 1..Len(s) |-> IF s[i] \in DOMAIN UpperToLower THEN UpperToLower[s[i]] ELSE s[i]]

\* String.prototype.toUpperCase
toUpperCase(s) ==
    [i \in 1..Len(s) |->
        IF \E u \in DOMAIN UpperToLower : UpperToLower[u] = s[i]
        THEN CHOOSE u \in DOMAIN UpperToLower : UpperToLower[u] = s[i]
        ELSE s[i]]

RECURSIVE trimStart(_)
trimStart(s) == IF Len(s) > 0 /\ s[1] = " " THEN trimStart(Tail(s)) ELSE s

RECURSIVE trimEnd(_)
trimEnd(s) ==
    IF Len(s) > 0 /\ s[Len(s)] = " " THEN trimEnd(SubSeq(s, 1, Len(s) - 1)) ELSE s

\* String.prototype.trim
trim(s) == trimEnd(trimStart(s))

-----------------------------------------------------------------------------
(* card-utils: constants *)

BASIC_LANDS ==
    << <<"m","o","u","n","t","a","i","n">>, <<"i","s","l","a","n","d">>,
       <<"p","l","a","i","n","s">>, <<"s","w","a","m","p">>,
       <<"f","o","r","e","s","t">> >>

SPECIAL_FRAME_EFFECTS == <<"borderless", "extendedart", "showcase", "inverted">>

isBasicLand(cardName) ==
    LET normalized == trim(toLowerCase(cardName))
    IN  Includes(BASIC_LANDS, normalized)

-----------------------------------------------------------------------------
(* utils.js: promo and frame detection *)

\* An absent promo_types / frame_effects array is the empty array: every use
\* in the code is "arr && arr.includes(..)" or "arr && arr.length > 0 && ..".
isPromoCard(card) ==
    IF card = NoValue THEN FALSE ELSE Includes(card.promo_types, "promopack")

\* The Frame/Variant Descriptor; NoValue is the descriptor "none" (null).
detectFrameEffect(card) ==
    IF card = NoValue THEN NoValue
    ELSE IF card.frame = "future" THEN <<"future-frame">>
    ELSE IF Len(card.frame_effects) > 0 /\ card.frame_effects[1] = "extendedart"
         THEN <<"extended-art">>
    ELSE IF Len(card.frame_effects) > 0 /\ card.frame_effects[1] = "showcase"
         THEN <<"showcase">>
    ELSE IF Len(card.frame_effects) > 0 /\ card.frame_effects[1] = "borderless"
         THEN <<"borderless">>
    ELSE IF card.border_color = "borderless" THEN <<"borderless">>
    ELSE IF card.border_color = "white" THEN <<"white-border">>
    ELSE IF card.frame = "1997" /\ Includes(card.promo_types, "boosterfun")
         THEN <<"retro">>
    ELSE NoValue

-----------------------------------------------------------------------------
(* card-utils: the printing selector *)

hasSpecialFrameEffect(card) ==
    LET hasSpecialFrame ==
            /\ Len(card.frame_effects) > 0
            /\ \E i \in 1..Len(card.frame_effects) :
                   Includes(SPECIAL_FRAME_EFFECTS, card.frame_effects[i])
        isPromo == isPromoCard(card)
    IN  hasSpecialFrame \/ isPromo

\* printings.filter((card) => !hasSpecialFrameEffect(card)) when requested
FilterPrintings(ps, exclude) ==
    IF exclude THEN SelectSeq(ps, LAMBDA card : ~hasSpecialFrameEffect(card)) ELSE ps

\* "card.prices && card.prices.usd": the usd string is present and non-empty
HasUsd(card) == "usd" \in DOMAIN card.prices

\* Variant of Cheaper that forgets the "price > 0" test
Cheaper_NoPositiveTest(price, lowest) == price < lowest

\* "price > 0 && price < lowestPrice"
Cheaper(price, lowest) == price > 0 /\ price < lowest

\* The loop over filteredPrintings; acc = [card, lowest] are cheapestCard and
\* lowestPrice after the first i-1 printings.
RECURSIVE CheapestLoop(_, _, _)
CheapestLoop(fps, i, acc) ==
    IF i > Len(fps) THEN acc
    ELSE LET card == fps[i]
         IN  IF HasUsd(card) /\ Cheaper(card.prices.usd, acc.lowest)
             THEN CheapestLoop(fps, i + 1, [card |-> card, lowest |-> card.prices.usd])
             ELSE CheapestLoop(fps, i + 1, acc)

\* Variant of FallbackPrinting that takes the first printing of the unfiltered list
FallbackPrinting_Unfiltered(ps, fps) == ps[1]

\* Variant of FallbackPrinting that takes the last eligible printing
FallbackPrinting_Last(ps, fps) == fps[Len(fps)]

\* "cheapestCard = filteredPrintings[0]" when the loop found no priced printing
FallbackPrinting(ps, fps) == fps[1]

findCheapestPrinting(ps, exclude) ==
    IF Len(ps) = 0 THEN NoValue
    ELSE LET filteredPrintings == FilterPrintings(ps, exclude)
         IN  IF Len(filteredPrintings) = 0 THEN NoValue
             ELSE LET found == CheapestLoop(filteredPrintings, 1,
                                            [card |-> NoValue, lowest |-> Infinity])
                  IN  IF found.card = NoValue
                      THEN FallbackPrinting(ps, filteredPrintings)
                      ELSE found.card

-----------------------------------------------------------------------------
(* Catalog data: printings as the card database returns them *)

Opt == <<"O","p","t">>

Printing(num, frame, effects, border, promos, prices) ==
    [name |-> Opt, set |-> <<"m","2","0">>, set_name |-> <<"C","o","r","e">>,
     collector_number |-> num, frame |-> frame, frame_effects |-> effects,
     border_color |-> border, promo_types |-> promos, prices |-> prices]

Usd(p) == [usd |-> p]

pStd2        == Printing(1,  "2015", <<>>, "black", <<>>, Usd(2))
pStd1        == Printing(2,  "2015", <<>>, "black", <<>>, Usd(1))
pNoPrice     == Printing(3,  "2015", <<>>, "black", <<>>, NoValue)
pZero        == Printing(4,  "2015", <<>>, "black", <<>>, Usd(0))
pShowcase    == Printing(5,  "2015", <<"showcase">>, "black", <<>>, Usd(1))
pInverted    == Printing(6,  "2015", <<"inverted">>, "black", <<>>, NoValue)
pLegendShow  == Printing(7,  "2015", <<"legendary", "showcase">>, "black", <<>>, Usd(3))
pFuture      == Printing(8,  "future", <<>>, "black", <<>>, Usd(1))
pWhite       == Printing(9,  "2015", <<>>, "white", <<>>, NoValue)
pRetro       == Printing(10, "1997", <<>>, "black", <<"boosterfun">>, Usd(3))
pPromoPack   == Printing(11, "2015", <<>>, "black", <<"promopack">>, Usd(1))
pBeginnerBox == Printing(12, "2015", <<>>, "black", <<"beginnerbox">>, Usd(2))
pNegative    == Printing(13, "2015", <<"legendary">>, "black", <<>>, Usd(-1))

PrintingPool ==
    {pStd2, pStd1, pNoPrice, pZero, pShowcase, pInverted, pLegendShow, pFuture,
     pWhite, pRetro, pPromoPack, pBeginnerBox, pNegative}

SeqsUpTo(S, n) == UNION {[1..k -> S] : k \in 0..n}

-----------------------------------------------------------------------------
(* utils.js: store configuration and the store price fetcher *)

\* Object.keys(STORE_CONFIG), in declaration order
getStoreKeys == <<"f2f", "hoc", "401games">>

StoreSet == {getStoreKeys[i] : i \in 1..Len(getStoreKeys)}

maxRetries == 3

BaseDelayMs == 1000

RECURSIVE Pow2(_)
Pow2(n) == IF n = 0 THEN 1 ELSE 2 * Pow2(n - 1)

\* What fetch(url) of a store endpoint can give: a network error (fetch
\* rejects), an error status, or status 200 with the body the endpoint sends:
\* one of the given prices (the scrapers only send a truthy price) or the
\* "Price not found" error body.
EndpointAnswers(store, prices) ==
    {[kind |-> "network-error"]}
    \cup {[kind |-> "http", status |-> st, body |-> [error |-> "failed"]] :
              st \in {404, 429, 500, 504}}
    \cup {[kind |-> "http", status |-> 200,
           body |-> [error |-> "Price not found", url |-> store]]}
    \cup {[kind |-> "http", status |-> 200,
           body |-> [price |-> p, currency |-> "CAD", store |-> store, url |-> store]] :
              p \in prices}

\* The answers fetch(url) may give for one store in this run
Responses(store) == endpoint[store]

\* response.ok
Ok(resp) == resp.status >= 200 /\ resp.status <= 299

\* Variant of MayRetry that allows one more retry
MayRetry_OneMore(retryCount) == retryCount <= maxRetries

\* "retryCount < maxRetries"
MayRetry(retryCount) == retryCount < maxRetries

\* Variant of BackoffMs that grows by the base delay at every retry
BackoffMs_Linear(retryCount) == (retryCount + 1) * BaseDelayMs

\* "Math.pow(2, retryCount) * 1000"
BackoffMs(retryCount) == Pow2(retryCount) * BaseDelayMs

\* Variant of FetchOutcome that also backs off and retries after a 504
FetchOutcome_RetryOnTimeout(resp, retryCount) ==
    IF resp.kind = "network-error" THEN [kind |-> "return", value |-> NoValue]
    ELSE IF ~Ok(resp) THEN
        IF resp.status = 404 THEN [kind |-> "return", value |-> NoValue]
        ELSE IF resp.status \in {429, 504} THEN
            IF MayRetry(retryCount)
            THEN [kind |-> "retry", delayMs |-> BackoffMs(retryCount)]
            ELSE [kind |-> "return", value |-> NoValue]
        ELSE [kind |-> "return", value |-> NoValue]
    ELSE IF "price" \in DOMAIN resp.body /\ resp.body.price # 0
         THEN [kind |-> "return",
               value |-> [price |-> resp.body.price, url |-> resp.body.url]]
         ELSE [kind |-> "return", value |-> NoValue]

\* One pass through fetchStorePrice from the answer of fetch(url) on: either
\* the value returned, or the backoff before the recursive call.
FetchOutcome(resp, retryCount) ==
    IF resp.kind = "network-error" THEN [kind |-> "return", value |-> NoValue]
    ELSE IF ~Ok(resp) THEN
        IF resp.status = 404 THEN [kind |-> "return", value |-> NoValue]
        ELSE IF resp.status = 429 THEN
            IF MayRetry(retryCount)
            THEN [kind |-> "retry", delayMs |-> BackoffMs(retryCount)]
            ELSE [kind |-> "return", value |-> NoValue]
        ELSE [kind |-> "return", value |-> NoValue]
    ELSE IF "price" \in DOMAIN resp.body /\ resp.body.price # 0
         THEN [kind |-> "return",
               value |-> [price |-> resp.body.price, url |-> resp.body.url]]
         ELSE [kind |-> "return", value |-> NoValue]

\* A fetchStorePrice call of line number line, awaiting fetch(url); waits
\* lists the backoff delays the call has sat out so far
NewCall(line, store) ==
    [line |-> line, store |-> store, retryCount |-> 0, phase |-> "fetch",
     delayMs |-> 0, waits |-> <<>>, value |-> NoValue]

\* Variant of AllSettled that resumes as soon as one call has settled
AllSettled_First(cs) == \E c \in cs : c.phase = "settled"

\* Promise.all resolves once every fetchStorePrice promise has resolved
AllSettled(cs) == \A c \in cs : c.phase = "settled"

\* fetchAllStorePrices: the object holding the non-null results, by store key
PricesOf(cs) ==
    LET got == {c \in cs : c.value # NoValue}
    IN  [key \in {c.store : c \in got} |-> (CHOOSE c \in got : c.store = key).value]

-----------------------------------------------------------------------------
(* deck-evaluator.js: pricing one deck line *)

\* getCardPrintings: [] on a network error or a non-ok status, else data.data
CatalogResponses(answers) ==
    {[kind |-> "network-error"], [kind |-> "http", ok |-> FALSE, data |-> <<>>]}
    \cup {[kind |-> "http", ok |-> TRUE, data |-> ps] : ps \in answers}

getCardPrintings(resp) ==
    IF resp.kind = "network-error" THEN <<>>
    ELSE IF ~resp.ok THEN <<>>
    ELSE resp.data

\* Variant of LineError that tests the selector's result before the list length
LineError_SelectorFirst(ps, exclude) ==
    IF findCheapestPrinting(ps, exclude) = NoValue THEN "No standard printings found"
    ELSE IF Len(ps) = 0 THEN "Card not found"
    ELSE ""

\* The early returns of findCheapestPrintingForDeck ("" when there is none)
LineError(ps, exclude) ==
    IF Len(ps) = 0 THEN "Card not found"
    ELSE IF findCheapestPrinting(ps, exclude) = NoValue THEN "No standard printings found"
    ELSE ""

\* Object.entries(prices): keys in insertion order, which is store order
Entries(prices) == SelectSeq(getStoreKeys, LAMBDA key : key \in DOMAIN prices)

\* Variant of Undercuts that also replaces the current store on an equal price
Undercuts_OrEqual(price, cheapestPrice) == price # 0 /\ price <= cheapestPrice

\* "priceData.price && priceData.price < cheapestPrice"
Undercuts(price, cheapestPrice) == price # 0 /\ price < cheapestPrice

\* The loop over Object.entries(prices); acc = [store, price]
RECURSIVE CheapestStoreLoop(_, _, _, _)
CheapestStoreLoop(prices, entries, i, acc) ==
    IF i > Len(entries) THEN acc
    ELSE LET store == entries[i]
         IN  IF Undercuts(prices[store].price, acc.price)
             THEN CheapestStoreLoop(prices, entries, i + 1,
                                    [store |-> <<store>>, price |-> prices[store].price])
             ELSE CheapestStoreLoop(prices, entries, i + 1, acc)

\* Variant of AllStorePrices that lists only the stores that answered with a quote
AllStorePrices_QuotedOnly(prices) == prices

\* allStorePrices[key] = prices[key] || { error: "Not available" }
AllStorePrices(prices) ==
    [key \in StoreSet |->
        IF key \in DOMAIN prices THEN prices[key] ELSE [error |-> "Not available"]]

\* The object findCheapestPrintingForDeck returns once the stores have answered
PricedResult(card, prices) ==
    LET allStorePrices == AllStorePrices(prices)
        found == CheapestStoreLoop(prices, Entries(prices), 1,
                                   [store |-> NoValue, price |-> Infinity])
    IN  IF found.store = NoValue
        THEN [error |-> "No prices found", allStorePrices |-> allStorePrices]
        ELSE LET cheapestStore == found.store[1]
             IN  [price |-> prices[cheapestStore].price,
                  store |-> cheapestStore,
                  url |-> prices[cheapestStore].url,
                  printing |-> card.set_name \o <<" ", "(">> \o toUpperCase(card.set) \o <<")">>,
                  cardName |-> card.name,
                  setCode |-> card.set,
                  collectorNumber |-> card.collector_number,
                  allStorePrices |-> allStorePrices]

-----------------------------------------------------------------------------
(* deck-evaluator.js: evaluateDeck *)

\* { ...a, ...b }
Spread(a, b) ==
    [k \in (DOMAIN a) \cup (DOMAIN b) |-> IF k \in DOMAIN b THEN b[k] ELSE a[k]]

\* Variant of FilterCards that never removes a line
FilterCards_Off(cs, exclude) == cs

\* cards.filter((card) => !isBasicLand(card.name)) when the option is checked
FilterCards(cs, exclude) ==
    IF exclude THEN SelectSeq(cs, LAMBDA card : ~isBasicLand(card.name)) ELSE cs

\* Variant of NeedsDelay that also waits after the last line
NeedsDelay_AfterLast(done, total) == done <= total

\* "results.length < filteredCards.length"
NeedsDelay(done, total) == done < total

\* The line being priced
CurrentLine == Len(results) + 1

\* Variant of Record that leaves the loop after a line without printings
Record_StopOnError(result) ==
    LET pushed == Append(results, Spread(filteredCards[CurrentLine], result))
    IN  /\ results' = pushed
        /\ IF NeedsDelay(Len(pushed), Len(filteredCards))
              /\ "allStorePrices" \in DOMAIN result
           THEN /\ pc' = "delay"
                /\ UNCHANGED <<displayed, disabled>>
           ELSE /\ pc' = "done"
                /\ displayed' = pushed
                /\ disabled' = FALSE

\* Variant of DisabledAfterDisplay that leaves the button disabled
DisabledAfterDisplay_Still == TRUE

\* "evaluateBtn.disabled = false", after displayResults
DisabledAfterDisplay == FALSE

\* results.push({...card, ...result}) and the rest of the loop body; after the
\* last line, the code following the loop.
Record(result) ==
    LET pushed == Append(results, Spread(filteredCards[CurrentLine], result))
    IN  /\ results' = pushed
        /\ IF NeedsDelay(Len(pushed), Len(filteredCards))
           THEN /\ pc' = "delay"
                /\ UNCHANGED <<displayed, disabled>>
           ELSE /\ pc' = "done"
                /\ displayed' = pushed
                /\ disabled' = DisabledAfterDisplay

\* Variant of DisabledWhileEvaluating that leaves the button enabled
DisabledWhileEvaluating_Never == FALSE

\* "evaluateBtn.disabled = true", set once the input checks have passed
DisabledWhileEvaluating == TRUE

\* The click handler up to its first await.  The browser sends no click event
\* to a disabled button; an enabled one can be clicked at any time.
Click ==
    /\ ~disabled
    /\ LET filtered == FilterCards(cards, excludeBasicLands)
       IN  IF Len(cards) = 0
           THEN /\ errorDeck' = "Please enter a valid deck list"
                /\ UNCHANGED <<pc, filteredCards, disabled, results, issued, displayed,
                               printings, cheapestCard, calls, delays>>
           ELSE IF Len(filtered) = 0
           THEN /\ errorDeck' = "No cards to evaluate"
                /\ UNCHANGED <<pc, filteredCards, disabled, results, issued, displayed,
                               printings, cheapestCard, calls, delays>>
           ELSE /\ filteredCards' = filtered
                /\ disabled' = DisabledWhileEvaluating
                /\ errorDeck' = ""
                /\ displayed' = <<>>
                /\ results' = <<>>
                /\ printings' = <<>>
                /\ cheapestCard' = NoValue
                /\ calls' = {}
                /\ issued' = 0
                /\ delays' = 0
                /\ pc' = "lookup"
    /\ UNCHANGED <<aside, cards, excludeBasicLands, excludeSpecial, catalog, endpoint,
                   throttleLeft>>

\* The catalog answers: findCheapestPrintingForDeck from line 26 up to its
\* return or to the requests fetchAllStorePrices issues, one per store.
CatalogResponds ==
    /\ pc = "lookup"
    /\ \E resp \in CatalogResponses(catalog) :
        LET ps == getCardPrintings(resp)
            err == LineError(ps, excludeSpecial)
        IN  /\ printings' = ps
            /\ IF err # ""
               THEN /\ Record([error |-> err])
                    /\ cheapestCard' = findCheapestPrinting(ps, excludeSpecial)
                    /\ UNCHANGED <<calls, issued>>
               ELSE /\ cheapestCard' = findCheapestPrinting(ps, excludeSpecial)
                    /\ calls' = calls \cup {NewCall(CurrentLine, key) : key \in StoreSet}
                    /\ issued' = issued + Len(getStoreKeys)
                    /\ pc' = "stores"
                    /\ UNCHANGED <<results, displayed, disabled>>
    /\ UNCHANGED <<aside, cards, excludeBasicLands, excludeSpecial, catalog, endpoint,
                   throttleLeft, filteredCards, errorDeck, delays>>

\* A store endpoint answers one fetchStorePrice call
StoreResponds ==
    \E c \in calls :
        /\ c.phase = "fetch"
        /\ \E resp \in Responses(c.store) :
            /\ (resp.kind = "http" /\ resp.status = 429) => throttleLeft > 0
            /\ throttleLeft' = IF resp.kind = "http" /\ resp.status = 429
                               THEN throttleLeft - 1 ELSE throttleLeft
            /\ LET out == FetchOutcome(resp, c.retryCount)
               IN  calls' = (calls \ {c}) \cup
                       {IF out.kind = "retry"
                        THEN [c EXCEPT !.phase = "backoff", !.delayMs = out.delayMs]
                        ELSE [c EXCEPT !.phase = "settled", !.value = out.value]}
        /\ UNCHANGED <<aside, cards, excludeBasicLands, excludeSpecial, catalog, endpoint, pc,
                       filteredCards, results, disabled, errorDeck, displayed,
                       printings, cheapestCard, issued, delays>>

\* The backoff timer of a rate-limited call fires: the recursive call
BackoffElapsed ==
    \E c \in calls :
        /\ c.phase = "backoff"
        /\ calls' = (calls \ {c}) \cup
               {[c EXCEPT !.phase = "fetch", !.retryCount = c.retryCount + 1,
                          !.delayMs = 0, !.waits = Append(c.waits, c.delayMs)]}
        /\ issued' = issued + 1
        /\ UNCHANGED <<aside, cards, excludeBasicLands, excludeSpecial, catalog, endpoint,
                       throttleLeft, pc, filteredCards, results, disabled, errorDeck,
                       displayed, printings, cheapestCard, delays>>

\* Promise.all resolves: the rest of fetchAllStorePrices and of
\* findCheapestPrintingForDeck, then the loop body of evaluateDeck.
ResumeAfterStores ==
    /\ pc = "stores"
    /\ LET mine == {c \in calls : c.line = CurrentLine}
       IN  /\ AllSettled(mine)
           /\ Record(PricedResult(cheapestCard, PricesOf(mine)))
           /\ calls' = {c \in calls : c.line # CurrentLine /\ c.phase # "settled"}
                       \cup {c \in mine : c.phase # "settled"}
    /\ UNCHANGED <<aside, cards, excludeBasicLands, excludeSpecial, catalog, endpoint,
                   throttleLeft, filteredCards, errorDeck, printings, cheapestCard,
                   issued, delays>>

\* The inter-line timer fires: the next iteration calls getCardPrintings
DelayElapsed ==
    /\ pc = "delay"
    /\ delays' = delays + 1
    /\ issued' = 0
    /\ pc' = "lookup"
    /\ UNCHANGED <<aside, cards, excludeBasicLands, excludeSpecial, catalog, endpoint,
                   throttleLeft, filteredCards, results, disabled, errorDeck,
                   displayed, printings, cheapestCard, calls>>

-----------------------------------------------------------------------------
(* deck-evaluator.js: calculateStoreTotals *)

\* Variant of AddToTotals that adds the price of a line once, whatever its quantity
AddToTotals_OncePerLine(totals, result) ==
    IF "allStorePrices" \in DOMAIN result
    THEN [store \in DOMAIN totals |->
             LET priceData == result.allStorePrices[store]
             IN  IF "price" \in DOMAIN priceData /\ priceData.price # 0
                 THEN totals[store] + priceData.price
                 ELSE totals[store]]
    ELSE totals

\* The body of the loop over results: "if (result.allStorePrices)", then for
\* every entry "if (priceData.price) totals[store] += price * quantity"
AddToTotals(totals, result) ==
    IF "allStorePrices" \in DOMAIN result
    THEN [store \in DOMAIN totals |->
             LET priceData == result.allStorePrices[store]
             IN  IF "price" \in DOMAIN priceData /\ priceData.price # 0
                 THEN totals[store] + priceData.price * result.quantity
                 ELSE totals[store]]
    ELSE totals

RECURSIVE TotalsLoop(_, _, _)
TotalsLoop(rs, i, totals) ==
    IF i > Len(rs) THEN totals
    ELSE TotalsLoop(rs, i + 1, AddToTotals(totals, rs[i]))

calculateStoreTotals(rs) == TotalsLoop(rs, 1, [key \in StoreSet |-> 0])

\* displayResults: the totals shown under the results of a finished evaluation
storeTotals == calculateStoreTotals(displayed)

-----------------------------------------------------------------------------
(* Deck evaluations *)

Island == <<"I","s","l","a","n","d">>

DeckLinePool == {[quantity |-> 4, name |-> Opt], [quantity |-> 1, name |-> Island]}

DeckCatalog == {<<>>, <<pShowcase>>}

\* Deck evaluations: a store is out of the card, throttles, or quotes one price
DeckAnswers(store) ==
    {r \in EndpointAnswers(store, {1}) :
        r.kind = "http" /\ (r.status \in {404, 429} \/ "price" \in DOMAIN r.body)}

\* Single lines: 401 Games prices come from parseFloat of page data and may
\* be negative, the prices of the other stores come from a digit pattern
LinePrices(store) == IF store = "401games" THEN {-1, 1, 2} ELSE {1, 2}

LineCatalog == {<<>>, <<pShowcase>>, <<pShowcase, pStd2>>, <<pNoPrice, pInverted>>}

\* The deck evaluator page is not in use
DeckIdle ==
    /\ cards = <<>> /\ excludeBasicLands = FALSE /\ excludeSpecial = FALSE
    /\ catalog = {} /\ endpoint = NoValue /\ throttleLeft = 0
    /\ filteredCards = <<>> /\ results = <<>> /\ disabled = FALSE
    /\ errorDeck = "" /\ displayed = <<>> /\ printings = <<>>
    /\ cheapestCard = NoValue /\ calls = {} /\ issued = 0 /\ delays = 0

\* No request is being handled
ServerIdle == req = NoValue /\ upstream = NoValue /\ res = NoValue

\* No slug is being derived
KebabIdle == str = <<>> /\ slug = <<>>

\* No URL is being built
UrlsIdle ==
    /\ urlCard = NoValue /\ storeKey = "" /\ frameEffect = NoValue
    /\ normalizedEffect = NoValue /\ apiUrl = NoValue /\ scrapeUrl = NoValue
    /\ directUrl = NoValue

ExtractIdle == page = NoValue /\ nearMintPrice = NoValue

\* The search page as loaded: no card displayed, every price cell empty
SearchIdle ==
    /\ sidebar = {}
    /\ links = [show |-> FALSE, card |-> <<>>, order |-> getStoreKeys]
    /\ priceCells = [of |-> <<>>, cells |-> [key \in StoreSet |-> [status |-> ""]]]
    /\ highlight = [of |-> <<>>, store |-> <<>>]
    /\ pendingPrices = {}
    /\ displayCount = 0

\* Nothing is going on outside the deck evaluator page
AsideIdle ==
    /\ ServerIdle
    /\ KebabIdle
    /\ UrlsIdle
    /\ deckText = <<>>
    /\ ExtractIdle
    /\ SearchIdle

PageLoaded ==
    /\ AsideIdle
    /\ pc = "idle" /\ disabled = FALSE /\ errorDeck = ""
    /\ filteredCards = <<>> /\ results = <<>> /\ displayed = <<>>
    /\ printings = <<>> /\ cheapestCard = NoValue
    /\ calls = {} /\ issued = 0 /\ delays = 0

Init ==
    /\ PageLoaded
    /\ cards \in SeqsUpTo(DeckLinePool, MaxLines)
    /\ excludeBasicLands \in BOOLEAN
    /\ excludeSpecial \in BOOLEAN
    /\ catalog = DeckCatalog
    /\ endpoint = [key \in StoreSet |-> DeckAnswers(key)]
    /\ throttleLeft = MaxThrottle

Next ==
    \/ Click
    \/ CatalogResponds
    \/ StoreResponds
    \/ BackoffElapsed
    \/ ResumeAfterStores
    \/ DelayElapsed

Spec == Init /\ [][Next]_vars

\* The pricing of a single deck line, with every store answer
InitLine ==
    /\ PageLoaded
    /\ cards \in SeqsUpTo(DeckLinePool, 1)
    /\ excludeBasicLands \in BOOLEAN
    /\ excludeSpecial \in BOOLEAN
    /\ catalog = LineCatalog
    /\ endpoint = [key \in StoreSet |-> EndpointAnswers(key, LinePrices(key))]
    /\ throttleLeft = MaxThrottleLine

NextLine ==
    \/ Click
    \/ CatalogResponds
    \/ StoreResponds
    \/ BackoffElapsed
    \/ ResumeAfterStores

SpecLine == InitLine /\ [][NextLine]_vars

\* The pricing of one line by stores that are out of the card, throttle or
\* quote one price; every fetch settles (resolves or rejects) and every
\* timer fires.
InitRetry ==
    /\ PageLoaded
    /\ cards \in SeqsUpTo(DeckLinePool, 1)
    /\ excludeBasicLands \in BOOLEAN
    /\ excludeSpecial \in BOOLEAN
    /\ catalog = DeckCatalog
    /\ endpoint = [key \in StoreSet |-> DeckAnswers(key)]
    /\ throttleLeft = MaxThrottleLine

SpecRetry == InitRetry /\ [][NextLine]_vars /\ WF_vars(NextLine)

\* The evaluation of one deck of three lines, none of them a basic land
Shock == <<"S","h","o","c","k">>

Duress == <<"D","u","r","e","s","s">>

ScenarioDeck ==
    <<[quantity |-> 4, name |-> Opt], [quantity |-> 2, name |-> Shock],
      [quantity |-> 1, name |-> Duress]>>

InitScenario ==
    /\ PageLoaded
    /\ cards = ScenarioDeck
    /\ excludeBasicLands \in BOOLEAN
    /\ excludeSpecial \in BOOLEAN
    /\ catalog = DeckCatalog
    /\ endpoint = [key \in StoreSet |-> DeckAnswers(key)]
    /\ throttleLeft = MaxThrottle

SpecScenario == InitScenario /\ [][Next]_vars

\* The evaluation of a deck of two lines with every answer a store endpoint
\* can give; every lookup and store request settles and every timer fires,
\* while nobody is bound to click.
InitSettle ==
    /\ PageLoaded
    /\ cards = SubSeq(ScenarioDeck, 1, 2)
    /\ excludeBasicLands \in BOOLEAN
    /\ excludeSpecial \in BOOLEAN
    /\ catalog = DeckCatalog
    /\ endpoint = [key \in StoreSet |-> EndpointAnswers(key, {1})]
    /\ throttleLeft = MaxThrottle

Settle == CatalogResponds \/ StoreResponds \/ BackoffElapsed \/ ResumeAfterStores \/ DelayElapsed

SpecSettle == InitSettle /\ [][Next]_vars /\ WF_vars(Settle)

-----------------------------------------------------------------------------
(* Selector runs: findCheapestPrinting applied to every catalog answer *)

InitSelector ==
    /\ AsideIdle
    /\ cards = <<>> /\ excludeBasicLands = FALSE
    /\ catalog = {} /\ endpoint = NoValue /\ throttleLeft = 0
    /\ filteredCards = <<>> /\ results = <<>> /\ disabled = FALSE
    /\ errorDeck = "" /\ displayed = <<>> /\ calls = {} /\ issued = 0 /\ delays = 0
    /\ printings \in SeqsUpTo(PrintingPool, MaxPrintings)
    /\ excludeSpecial \in BOOLEAN
    /\ cheapestCard = NoValue
    /\ pc = "select"

Select ==
    /\ pc = "select"
    /\ cheapestCard' = findCheapestPrinting(printings, excludeSpecial)
    /\ pc' = "selected"
    /\ UNCHANGED <<aside, cards, excludeBasicLands, excludeSpecial, catalog, endpoint,
                   throttleLeft, filteredCards, results, disabled, errorDeck,
                   displayed, printings, calls, issued, delays>>

NextSelector == Select

SpecSelector == InitSelector /\ [][NextSelector]_vars

\* Positions of the printings left by the filter the flag selects
Eligible == {i \in 1..Len(printings) : ~excludeSpecial \/ ~hasSpecialFrameEffect(printings[i])}

Positive(card) == "usd" \in DOMAIN card.prices /\ card.prices.usd > 0

\* C3: the selector returns null or a printing of the input list that passes
\* the filter selected by the flag; it never fabricates a printing.
C3_SelectorReturnsMember ==
    pc = "selected" =>
        \/ cheapestCard = NoValue
        \/ \E i \in Eligible : printings[i] = cheapestCard

C3_Witness ==
    /\ pc = "selected" /\ excludeSpecial /\ cheapestCard # NoValue
    /\ Len(printings) >= 2 /\ 1 \notin Eligible

\* C4: when an eligible printing has a positive catalog price, the selector
\* returns a positive-priced printing that no positive-priced eligible
\* printing undercuts.
C4_LowestPositivePrice ==
    (pc = "selected" /\ \E i \in Eligible : Positive(printings[i])) =>
        /\ cheapestCard # NoValue
        /\ Positive(cheapestCard)
        /\ \A i \in Eligible :
               Positive(printings[i]) => cheapestCard.prices.usd <= printings[i].prices.usd

C4_Witness ==
    /\ pc = "selected" /\ cheapestCard = pStd1
    /\ \E i, j, k \in Eligible :
           /\ printings[i] = pZero /\ printings[j] = pStd2 /\ printings[k] = pStd1
           /\ i < j /\ j < k

\* C5: when the eligible set is non-empty and holds no positive catalog
\* price, the selector returns the first eligible printing in catalog order.
C5_FallbackFirstEligible ==
    (pc = "selected" /\ Eligible # {} /\ \A i \in Eligible : ~Positive(printings[i])) =>
        cheapestCard = printings[CHOOSE i \in Eligible : \A j \in Eligible : i <= j]

C5_Witness ==
    /\ pc = "selected" /\ excludeSpecial
    /\ Cardinality(Eligible) >= 2 /\ 1 \notin Eligible
    /\ \A i \in Eligible : ~Positive(printings[i])
    /\ \E i, j \in Eligible : printings[i] # printings[j]
    /\ cheapestCard # NoValue

\* C6 (as claimed): with the flag set a printing is removed exactly when its
\* descriptor is not none or it carries the promo-pack tag, so the printing
\* returned never has a non-none descriptor.
C6_FilterByDescriptor ==
    (pc = "selected" /\ excludeSpecial) =>
        /\ \A i \in 1..Len(printings) :
               (i \notin Eligible) <=>
                   (detectFrameEffect(printings[i]) # NoValue \/ isPromoCard(printings[i]))
        /\ cheapestCard # NoValue => detectFrameEffect(cheapestCard) = NoValue

-----------------------------------------------------------------------------
(* server.js: the store pricing endpoints *)

\* The six routes: the store they scrape and the product page they fetch
Routes ==
    {[key |-> k, withEffect |-> e] : k \in StoreSet, e \in BOOLEAN}

StoreName(route) ==
    IF route.key = "f2f" THEN "Face to Face Games"
    ELSE IF route.key = "hoc" THEN "House of Cards"
    ELSE "401 Games"

ProductUrl(route) ==
    IF route.key = "f2f" THEN "https://facetofacegames.com/products/"
    ELSE IF route.key = "hoc" THEN "https://houseofcards.ca/products/"
    ELSE "https://store.401games.ca/products/"

\* What the price finder of a route can give on a fetched page: null, or a
\* number.  findPriceInHTML only returns truthy numbers of a digit pattern;
\* find401GamesNearMintPrice returns whatever parseFloat gave last.
FoundOnPage(route) ==
    IF route.key = "401games" THEN {<<>>, <<0>>, <<-1>>, <<1>>, <<2>>}
    ELSE {<<>>, <<1>>, <<2>>}

\* What fetchPage followed by the price finder gives: axios rejects without
\* a response (timeout codes, other codes), rejects with the response of a
\* status outside 2xx, or resolves with the page.
UpstreamOutcomes(route) ==
    {[kind |-> "error", code |-> c, message |-> "no response"] :
         c \in {"ECONNABORTED", "ETIMEDOUT", "ENOTFOUND"}}
    \cup {[kind |-> "error", code |-> "ERR_BAD_STATUS", message |-> "bad status",
           response |-> [status |-> st]] : st \in {404, 429, 500, 503}}
    \cup {[kind |-> "page", found |-> f] : f \in FoundOnPage(route)}

\* "if (price)"
TruthyPrice(found) == found # <<>> /\ found[1] # 0

\* scrapeStorePrice / scrape401GamesPrice: the object returned, or the error
\* of fetchPage thrown again
ScrapeOutcome(route, up) ==
    IF up.kind = "error" THEN [threw |-> TRUE, error |-> up]
    ELSE IF TruthyPrice(up.found)
    THEN [threw |-> FALSE,
          result |-> [price |-> up.found[1], currency |-> "CAD",
                      store |-> StoreName(route), url |-> ProductUrl(route)]]
    ELSE [threw |-> FALSE,
          result |-> [error |-> "Price not found", url |-> ProductUrl(route)]]

\* The response asyncRouteHandler sends; res.json(result) sends status 200
asyncRouteHandler(outcome) ==
    IF ~outcome.threw
    THEN [status |-> 200, body |-> outcome.result]
    ELSE LET error == outcome.error
         IN  IF error.code = "ECONNABORTED" \/ error.code = "ETIMEDOUT"
             THEN [status |-> 504,
                   body |-> [error |-> "Request timeout",
                             message |-> "Store took too long to respond"]]
             ELSE IF "response" \in DOMAIN error /\ error.response.status = 404
             THEN [status |-> 404,
                   body |-> [error |-> "Card not found",
                             message |-> "Card not available at this store"]]
             ELSE [status |-> 500,
                   body |-> [error |-> "Failed to fetch price", message |-> error.message]]

\* One request to a pricing route, handled up to the response
HandleRequest ==
    /\ pc = "request"
    /\ res' = asyncRouteHandler(ScrapeOutcome(req, upstream))
    /\ pc' = "replied"
    /\ UNCHANGED <<deck, req, upstream, kebab, urls, deckText, extract, search>>

InitServer ==
    /\ DeckIdle
    /\ KebabIdle
    /\ UrlsIdle
    /\ deckText = <<>>
    /\ ExtractIdle
    /\ SearchIdle
    /\ pc = "request"
    /\ req \in Routes
    /\ upstream \in UpstreamOutcomes(req)
    /\ res = NoValue

NextServer == HandleRequest

SpecServer == InitServer /\ [][NextServer]_vars

-----------------------------------------------------------------------------
(* utils.js: toKebabCase *)

Digits == {"0", "1", "2", "3", "4", "5", "6", "7", "8", "9"}

\* The characters of the class [a-z0-9]
Alnum == {UpperToLower[c] : c \in DOMAIN UpperToLower} \cup Digits

\* .replace(/'/g, "")
RemoveApostrophes(s) == SelectSeq(s, LAMBDA c : c # "'")

\* .replace(/[^a-z0-9]+/g, "-"): every maximal run of other characters
\* becomes one hyphen
RECURSIVE CollapseRuns(_, _)
CollapseRuns(s, i) ==
    IF i > Len(s) THEN <<>>
    ELSE IF s[i] \in Alnum THEN <<s[i]>> \o CollapseRuns(s, i + 1)
    ELSE IF i > 1 /\ s[i - 1] \notin Alnum THEN CollapseRuns(s, i + 1)
    ELSE <<"-">> \o CollapseRuns(s, i + 1)

RECURSIVE StripLeadingHyphens(_)
StripLeadingHyphens(s) ==
    IF Len(s) > 0 /\ s[1] = "-" THEN StripLeadingHyphens(Tail(s)) ELSE s

RECURSIVE StripTrailingHyphens(_)
StripTrailingHyphens(s) ==
    IF Len(s) > 0 /\ s[Len(s)] = "-"
    THEN StripTrailingHyphens(SubSeq(s, 1, Len(s) - 1)) ELSE s

\* .replace(/^-+|-+$/g, "")
TrimHyphens(s) == StripTrailingHyphens(StripLeadingHyphens(s))

\* The chain of replacements applied to a name or to one face of it
KebabPart(s) == TrimHyphens(CollapseRuns(RemoveApostrophes(toLowerCase(s)), 1))

\* str.includes("//")
IncludesSeparator(s) == \E i \in 1..(Len(s) - 1) : s[i] = "/" /\ s[i + 1] = "/"

\* str.split("//"): the pieces between the occurrences of "//", found left
\* to right without overlap; i is the position read, from the start of the
\* piece being collected
RECURSIVE SplitFaces(_, _, _)
SplitFaces(s, i, from) ==
    IF i > Len(s) THEN <<SubSeq(s, from, Len(s))>>
    ELSE IF i < Len(s) /\ s[i] = "/" /\ s[i + 1] = "/"
    THEN <<SubSeq(s, from, i - 1)>> \o SplitFaces(s, i + 2, i + 2)
    ELSE SplitFaces(s, i + 1, from)

\* parts.join("-")
RECURSIVE JoinWithHyphen(_)
JoinWithHyphen(parts) ==
    IF Len(parts) = 0 THEN <<>>
    ELSE IF Len(parts) = 1 THEN parts[1]
    ELSE parts[1] \o <<"-">> \o JoinWithHyphen(Tail(parts))

toKebabCase(s) ==
    IF IncludesSeparator(s)
    THEN LET parts == [n \in 1..Len(SplitFaces(s, 1, 1)) |-> trim(SplitFaces(s, 1, 1)[n])]
         IN  JoinWithHyphen([n \in 1..Len(parts) |-> KebabPart(parts[n])])
    ELSE KebabPart(s)

\* The characters of the names tried: an upper-case and a lower-case letter,
\* a space, an apostrophe and a slash
NameChars == {"A", "b", " ", "'", "/"}

\* A name is handed to toKebabCase
Derive ==
    /\ pc = "slug"
    /\ slug' = toKebabCase(str)
    /\ pc' = "slugged"
    /\ UNCHANGED <<deck, server, str, urls, deckText, extract, search>>

\* The slug is handed to toKebabCase once more
DeriveAgain ==
    /\ pc = "slugged"
    /\ str' = slug
    /\ slug' = toKebabCase(slug)
    /\ pc' = "reslugged"
    /\ UNCHANGED <<deck, server, urls, deckText, extract, search>>

InitSlug ==
    /\ DeckIdle
    /\ ServerIdle
    /\ UrlsIdle
    /\ deckText = <<>>
    /\ ExtractIdle
    /\ SearchIdle
    /\ pc = "slug"
    /\ str \in SeqsUpTo(NameChars, MaxNameLen)
    /\ slug = <<>>

NextSlug == Derive \/ DeriveAgain

SpecSlug == InitSlug /\ [][NextSlug]_vars

-----------------------------------------------------------------------------
(* utils.js: normalizeFrameEffect and the URL builders; server.js: the routes *)

\* Texts that are put together from pieces are sequences of pieces: a slug
\* brings its characters, a token, a separator or a literal is one piece.

\* Variant of normalizeFrameEffect that renames retro for every store
normalizeFrameEffect_RetroEverywhere(effect, key) ==
    IF effect = <<"retro">> THEN <<"retro-frame">>
    ELSE IF effect = <<"future-frame">> /\ key = "hoc" THEN <<"future-sight">>
    ELSE IF effect = <<"future-frame">> /\ key = "f2f" THEN <<"future-frame">>
    ELSE IF effect = <<"future-frame">> /\ key = "401games" THEN NoValue
    ELSE IF effect = <<"white-border">>
         THEN IF key = "401games" THEN NoValue ELSE <<"white-border">>
    ELSE effect

normalizeFrameEffect(effect, key) ==
    IF effect = <<"retro">> /\ (key = "f2f" \/ key = "401games") THEN <<"retro-frame">>
    ELSE IF effect = <<"future-frame">> /\ key = "hoc" THEN <<"future-sight">>
    ELSE IF effect = <<"future-frame">> /\ key = "f2f" THEN <<"future-frame">>
    ELSE IF effect = <<"future-frame">> /\ key = "401games" THEN NoValue
    ELSE IF effect = <<"white-border">>
         THEN IF key = "401games" THEN NoValue ELSE <<"white-border">>
    ELSE effect

API_BASE == "http://localhost:3000/api"

\* `${collectorNumber}`
CollectorText(c) == <<ToString(c.collector_number)>>

\* "frameEffect ? normalizeFrameEffect(frameEffect, key) : null"
NormalizedEffectOf(c, key) ==
    IF detectFrameEffect(c) # NoValue
    THEN normalizeFrameEffect(detectFrameEffect(c), key) ELSE NoValue

\* The last path segment of the API URL: the set slug, or the set code for 401 Games
SetPart(c, key) == IF key = "401games" THEN c.set ELSE toKebabCase(c.set_name)

\* buildStoreApiUrl; null for a key that is none of the three
buildStoreApiUrl(key, c) ==
    LET normalized == NormalizedEffectOf(c, key)
        effectPart == IF normalized # NoValue THEN normalized \o <<"/">> ELSE <<>>
        promoPart == IF isPromoCard(c) THEN <<"promo-pack", "/">> ELSE <<>>
        numberPart == IF key = "f2f" THEN CollectorText(c) \o <<"/">> ELSE <<>>
    IN  IF key \in {"f2f", "hoc", "401games"}
        THEN <<API_BASE, "/", "price", "/", key, "/">> \o toKebabCase(c.name) \o <<"/">>
                 \o numberPart \o promoPart \o effectPart \o SetPart(c, key)
        ELSE NoValue

\* STORE_CONFIG[key].buildStoreUrl called as buildDirectStoreUrl calls it
buildDirectStoreUrl(key, c) ==
    LET normalized == NormalizedEffectOf(c, key)
        effectPart == IF normalized # NoValue THEN normalized \o <<"-">> ELSE <<>>
        promoPart == IF isPromoCard(c) THEN <<"promo-pack", "-">> ELSE <<>>
        numberPart == IF key = "f2f" THEN CollectorText(c) \o <<"-">> ELSE <<>>
        tail == IF key = "f2f" THEN <<"-", "non-foil">> ELSE <<>>
    IN  IF key \notin StoreSet THEN NoValue
        ELSE <<ProductUrl([key |-> key])>> \o toKebabCase(c.name) \o <<"-">>
                 \o numberPart \o promoPart \o effectPart \o SetPart(c, key) \o tail

\* The segments of a path: the pieces between the "/" pieces
RECURSIVE PathSegments(_, _, _)
PathSegments(path, i, from) ==
    IF i > Len(path) THEN <<SubSeq(path, from, Len(path))>>
    ELSE IF path[i] = "/"
    THEN <<SubSeq(path, from, i - 1)>> \o PathSegments(path, i + 1, i + 1)
    ELSE PathSegments(path, i + 1, from)

\* The numbers of parameters of the routes of a store, "/api/price/<key>/:.."
RouteArities(key) == IF key = "f2f" THEN {3, 4} ELSE {2, 3}

RECURSIVE JoinParams(_)
JoinParams(params) ==
    IF Len(params) = 1 THEN params[1]
    ELSE params[1] \o <<"-">> \o JoinParams(Tail(params))

\* The product page fetched by the route that matches the URL; no value when
\* no route matches.  Every route joins its parameters with hyphens in path
\* order; a parameter matches a non-empty segment.
RouteScrapeUrl(url) ==
    IF url = NoValue THEN NoValue
    ELSE LET segments == PathSegments(Tail(url), 1, 1)
         IN  IF /\ Len(segments) > 3
                /\ segments[1] = <<>> /\ segments[2] = <<"price">>
                /\ Len(segments[3]) = 1 /\ segments[3][1] \in StoreSet
                /\ (Len(segments) - 3) \in RouteArities(segments[3][1])
                /\ \A n \in 4..Len(segments) : segments[n] # <<>>
             THEN LET key == segments[3][1]
                  IN  <<ProductUrl([key |-> key])>>
                          \o JoinParams(SubSeq(segments, 4, Len(segments)))
                          \o (IF key = "f2f" THEN <<"-", "non-foil">> ELSE <<>>)
             ELSE NoValue

\* Printings with every combination of frame, frame effects, border colour
\* and promo types that the frame functions tell apart
FramePool ==
    {Printing(7, f, e, bc, pt, Usd(1)) :
        f \in {"2015", "1997", "future"},
        e \in {<<>>, <<"showcase">>, <<"borderless">>, <<"extendedart", "showcase">>,
               <<"legendary", "showcase">>},
        bc \in {"black", "white", "borderless"},
        pt \in {<<>>, <<"boosterfun">>, <<"promopack">>, <<"boosterfun", "promopack">>}}

\* The descriptors detectFrameEffect can return, null, and one it cannot
Descriptors ==
    {NoValue, <<"future-frame">>, <<"extended-art">>, <<"showcase">>,
     <<"borderless">>, <<"white-border">>, <<"retro">>, <<"etched">>}

\* The three store keys and a key of no store
StoreKeys == StoreSet \cup {"tcg"}

\* normalizeFrameEffect(frameEffect, storeKey)
Normalize ==
    /\ pc = "normalize"
    /\ normalizedEffect' = normalizeFrameEffect(frameEffect, storeKey)
    /\ pc' = "detect"
    /\ UNCHANGED <<deck, server, kebab, deckText, extract, search, urlCard, storeKey, frameEffect, apiUrl,
                   scrapeUrl, directUrl>>

\* detectFrameEffect(card)
Detect ==
    /\ pc = "detect"
    /\ frameEffect' = detectFrameEffect(urlCard)
    /\ pc' = "api"
    /\ UNCHANGED <<deck, server, kebab, deckText, extract, search, urlCard, storeKey, normalizedEffect, apiUrl,
                   scrapeUrl, directUrl>>

\* buildStoreApiUrl(storeKey, card)
BuildApiUrl ==
    /\ pc = "api"
    /\ apiUrl' = buildStoreApiUrl(storeKey, urlCard)
    /\ pc' = "route"
    /\ UNCHANGED <<deck, server, kebab, deckText, extract, search, urlCard, storeKey, frameEffect,
                   normalizedEffect, scrapeUrl, directUrl>>

\* The server receives the request for the API URL
Dispatch ==
    /\ pc = "route"
    /\ scrapeUrl' = RouteScrapeUrl(apiUrl)
    /\ pc' = "direct"
    /\ UNCHANGED <<deck, server, kebab, deckText, extract, search, urlCard, storeKey, frameEffect,
                   normalizedEffect, apiUrl, directUrl>>

\* buildDirectStoreUrl(storeKey, card)
BuildDirectUrl ==
    /\ pc = "direct"
    /\ directUrl' = buildDirectStoreUrl(storeKey, urlCard)
    /\ pc' = "built"
    /\ UNCHANGED <<deck, server, kebab, deckText, extract, search, urlCard, storeKey, frameEffect,
                   normalizedEffect, apiUrl, scrapeUrl>>

InitUrl ==
    /\ DeckIdle
    /\ ServerIdle
    /\ KebabIdle
    /\ deckText = <<>>
    /\ ExtractIdle
    /\ SearchIdle
    /\ pc = "normalize"
    /\ urlCard \in FramePool
    /\ storeKey \in StoreKeys
    /\ frameEffect \in Descriptors
    /\ normalizedEffect = NoValue /\ apiUrl = NoValue /\ scrapeUrl = NoValue
    /\ directUrl = NoValue

NextUrl ==
    \/ Normalize
    \/ Detect
    \/ BuildApiUrl
    \/ Dispatch
    \/ BuildDirectUrl

SpecUrl == InitUrl /\ [][NextUrl]_vars

-----------------------------------------------------------------------------
(* card-utils: parseDeckList *)

\* .split("\n")
RECURSIVE SplitLines(_, _, _)
SplitLines(s, i, from) ==
    IF i > Len(s) THEN <<SubSeq(s, from, Len(s))>>
    ELSE IF s[i] = "\n"
    THEN <<SubSeq(s, from, i - 1)>> \o SplitLines(s, i + 1, i + 1)
    ELSE SplitLines(s, i + 1, from)

\* String.prototype.trim over the text of a deck list: spaces and line breaks
RECURSIVE TrimText(_)
TrimText(s) ==
    IF Len(s) > 0 /\ s[1] \in {" ", "\n"} THEN TrimText(Tail(s))
    ELSE IF Len(s) > 0 /\ s[Len(s)] \in {" ", "\n"}
    THEN TrimText(SubSeq(s, 1, Len(s) - 1))
    ELSE s

\* The length of the longest prefix of s from position i on that \d+ can take
RECURSIVE DigitRun(_, _)
DigitRun(s, i) ==
    IF i <= Len(s) /\ s[i] \in Digits THEN 1 + DigitRun(s, i + 1) ELSE 0

\* The length of the run of whitespace \s+ takes from position i on
RECURSIVE SpaceRun(_, _)
SpaceRun(s, i) ==
    IF i <= Len(s) /\ s[i] = " " THEN 1 + SpaceRun(s, i + 1) ELSE 0

DigitValue ==
    "0" :> 0 @@ "1" :> 1 @@ "2" :> 2 @@ "3" :> 3 @@ "4" :> 4 @@
    "5" :> 5 @@ "6" :> 6 @@ "7" :> 7 @@ "8" :> 8 @@ "9" :> 9

\* parseInt of a string of digits
RECURSIVE parseInt(_)
parseInt(ds) ==
    IF Len(ds) = 0 THEN 0
    ELSE 10 * parseInt(SubSeq(ds, 1, Len(ds) - 1)) + DigitValue[ds[Len(ds)]]

\* trimmed.match(/^(\d+)x?\s+(.+)$/i): the groups, or null.  The digits are
\* taken greedily (giving one back leaves a digit where x or whitespace must
\* follow), then x or X when whitespace follows it, then all the whitespace,
\* and the rest must not be empty.
MatchQuantity(trimmed) ==
    LET d == DigitRun(trimmed, 1)
        withX == d + 1 <= Len(trimmed) /\ trimmed[d + 1] \in {"x", "X"}
                     /\ SpaceRun(trimmed, d + 2) > 0
        start == IF withX THEN d + 2 ELSE d + 1
        w == SpaceRun(trimmed, start)
    IN  IF d > 0 /\ w > 0 /\ start + w <= Len(trimmed)
        THEN <<SubSeq(trimmed, 1, d), SubSeq(trimmed, start + w, Len(trimmed))>>
        ELSE NoValue

\* Variant of ParseLine that gives every line the quantity 1
ParseLine_AlwaysOne(line) ==
    LET trimmed == trim(line)
    IN  IF trimmed = <<>> THEN <<>> ELSE <<[quantity |-> 1, name |-> trimmed]>>

\* The body of the loop over the lines: the cards pushed for one line
ParseLine(line) ==
    LET trimmed == trim(line)
        match == MatchQuantity(trimmed)
    IN  IF trimmed = <<>> THEN <<>>
        ELSE IF match # NoValue
        THEN <<[quantity |-> parseInt(match[1]), name |-> trim(match[2])]>>
        ELSE <<[quantity |-> 1, name |-> trimmed]>>

RECURSIVE ParseLines(_, _)
ParseLines(lines, i) ==
    IF i > Len(lines) THEN <<>>
    ELSE ParseLine(lines[i]) \o ParseLines(lines, i + 1)

parseDeckList(text) == ParseLines(SplitLines(TrimText(text), 1, 1), 1)

\* The characters of the deck lists tried
TextChars == {"4", "x", " ", "\n", "B"}

\* evaluateDeck reads the textarea and parses it
ParseDeckList ==
    /\ pc = "parse"
    /\ cards' = parseDeckList(deckText)
    /\ pc' = "parsed"
    /\ UNCHANGED <<excludeBasicLands, excludeSpecial, catalog, endpoint, throttleLeft,
                   filteredCards, results, disabled, errorDeck, displayed, printings,
                   cheapestCard, calls, issued, delays, server, kebab, urls, deckText, extract, search>>

InitParse ==
    /\ DeckIdle
    /\ ServerIdle
    /\ KebabIdle
    /\ UrlsIdle
    /\ ExtractIdle
    /\ SearchIdle
    /\ pc = "parse"
    /\ deckText \in SeqsUpTo(TextChars, MaxTextLen)

NextParse == ParseDeckList

SpecParse == InitParse /\ [][NextParse]_vars

-----------------------------------------------------------------------------
(* server.js: find401GamesNearMintPrice *)

\* Prices are kept in hundredths of a dollar: parseFloat(x) / 100 of a raw
\* value x is x hundredths, and a raw value returned as it is counts
\* MinorPerMajor hundredths for each unit.
MinorPerMajor == 100
MinorThreshold == 1000

\* variantTitle.includes("near mint") || variantTitle.includes("nm"), of the
\* lower-cased title: true of these titles
IsNearMint(title) == title \in {"Near Mint", "NM"}

\* "if (price)": neither null nor 0
Truthy(price) == price # <<>> /\ price[1] # 0

\* The variants of script number id of one kind, in page order
VariantsOf(pg, kind, id) ==
    SelectSeq(pg.variants, LAMBDA v : v.kind = kind /\ v.script = id)

\* The first variant of a list whose title names the Near Mint condition
FirstNearMint(variants) ==
    LET found == {k \in 1..Len(variants) : IsNearMint(variants[k].title)}
    IN  IF found = {} THEN <<>>
        ELSE <<variants[CHOOSE k \in found : \A j \in found : k <= j]>>

\* "price = parseFloat(variant.price) / 100"
JsonPrice(raw) == raw

\* "price = rawPrice > 1000 ? rawPrice / 100 : rawPrice"
InlinePrice(raw) == IF raw > MinorThreshold THEN raw ELSE raw * MinorPerMajor

\* The loop over the script tags of type application/json: price after the
\* scripts from number id on
RECURSIVE JsonScripts(_, _, _)
JsonScripts(pg, id, price) ==
    IF id > pg.scripts THEN price
    ELSE LET nm == FirstNearMint(VariantsOf(pg, "json", id))
             now == IF nm = <<>> THEN price ELSE <<JsonPrice(nm[1].price)>>
         IN  IF Truthy(now) THEN now ELSE JsonScripts(pg, id + 1, now)

\* The loop over the inline scripts and the patterns matched in them
RECURSIVE InlineScripts(_, _, _)
InlineScripts(pg, id, price) ==
    IF id > pg.scripts THEN price
    ELSE LET nm == FirstNearMint(VariantsOf(pg, "inline", id))
             now == IF nm = <<>> THEN price ELSE <<InlinePrice(nm[1].price)>>
         IN  IF Truthy(now) THEN now ELSE InlineScripts(pg, id + 1, now)

\* The final fallback: parseFloat of the og:price:amount meta tag
MetaFallback(pg, price) ==
    IF pg.metaPrice # <<>> THEN <<pg.metaPrice[1] * MinorPerMajor>> ELSE price

find401GamesNearMintPrice(pg) ==
    LET json == JsonScripts(pg, 1, <<>>)
        inline == IF ~Truthy(json) THEN InlineScripts(pg, 1, json) ELSE json
    IN  IF ~Truthy(inline) THEN MetaFallback(pg, inline) ELSE inline

\* The variants tried: Near Mint ones with raw prices around the threshold
\* and a raw price of 0, and one of another condition
RawPrices == {0, MinorThreshold, MinorThreshold + 1}
VariantPool ==
    {[kind |-> k, script |-> id, title |-> t, price |-> r] :
         k \in {"json", "inline"}, id \in 1..2, t \in {"Near Mint"}, r \in RawPrices}
    \cup {[kind |-> k, script |-> id, title |-> "Played", price |-> MinorThreshold + 1] :
              k \in {"json", "inline"}, id \in 1..2}

\* The pages tried: up to MaxVariants variants spread over two scripts of
\* each kind, and a meta tag that is absent or holds an amount in dollars
Pages ==
    {[scripts |-> 2, variants |-> vs, metaPrice |-> mp] :
         vs \in SeqsUpTo(VariantPool, MaxVariants), mp \in {<<>>, <<0>>, <<3>>}}

\* scrape401GamesPrice: "const price = find401GamesNearMintPrice($)"
ExtractPrice ==
    /\ pc = "extract"
    /\ nearMintPrice' = find401GamesNearMintPrice(page)
    /\ pc' = "extracted"
    /\ UNCHANGED <<deck, server, kebab, urls, deckText, page, search>>

InitExtract ==
    /\ DeckIdle
    /\ ServerIdle
    /\ KebabIdle
    /\ UrlsIdle
    /\ deckText = <<>>
    /\ SearchIdle
    /\ pc = "extract"
    /\ page \in Pages
    /\ nearMintPrice = NoValue

NextExtract == ExtractPrice

SpecExtract == InitExtract /\ [][NextExtract]_vars

-----------------------------------------------------------------------------
(* script.js: the card search page *)

\* The printings a search may find, by id; all of them have an image
SearchPrintings == {1, 2}

\* What fetchAllStorePrices may resolve to: for each store a price or nothing
PriceData == [StoreSet -> {<<>>, <<1>>, <<2>>}]

\* initializeStorePriceTracking: every price element shows "Loading..."
LoadingCells == [key \in StoreSet |-> [status |-> "loading"]]

\* updateStorePriceDisplays: "success" with the price, or "unavailable"
UpdatedCells(priceData) ==
    [key \in StoreSet |->
        IF priceData[key] # <<>> /\ priceData[key][1] # 0
        THEN [status |-> "success", price |-> priceData[key][1]]
        ELSE [status |-> "unavailable"]]

\* storePrices[key].price after updateStorePriceDisplays
TrackedPrice(priceData, key) ==
    IF priceData[key] # <<>> /\ priceData[key][1] # 0 THEN priceData[key][1]
    ELSE Infinity

\* storesArray.sort((a, b) => a.price - b.price): stable, lowest price first
SortedStores(priceData) ==
    LET Before(i, j) ==
            \/ TrackedPrice(priceData, getStoreKeys[i]) < TrackedPrice(priceData, getStoreKeys[j])
            \/ /\ TrackedPrice(priceData, getStoreKeys[i]) = TrackedPrice(priceData, getStoreKeys[j])
               /\ i < j
        Rank(i) == 1 + Cardinality({j \in 1..Len(getStoreKeys) : Before(j, i)})
    IN  [r \in 1..Len(getStoreKeys) |->
            getStoreKeys[CHOOSE i \in 1..Len(getStoreKeys) : Rank(i) = r]]

\* sortStoresByPrice: the store given the class cheapest-store, if any
CheapestOf(priceData) ==
    IF TrackedPrice(priceData, SortedStores(priceData)[1]) # Infinity
    THEN <<SortedStores(priceData)[1]>>
    ELSE <<>>

\* searchCard up to its first await: hideAll and the button disabled
SearchClick ==
    /\ pc = "ready"
    /\ displayCount < MaxDisplays
    /\ sidebar' = {}
    /\ links' = [links EXCEPT !.show = FALSE]
    /\ pc' = "searching"
    /\ UNCHANGED <<deck, server, kebab, urls, deckText, extract,
                   priceCells, highlight, pendingPrices, displayCount>>

\* displayCard(c) with setStoreLinks(c): the links point at c, the price
\* elements show "Loading...", and the prices of c are requested
DisplayCard(c) ==
    /\ links' = [show |-> TRUE, card |-> <<c>>, order |-> links.order]
    /\ priceCells' = [of |-> <<>>, cells |-> LoadingCells]
    /\ pendingPrices' = pendingPrices \cup {[card |-> c, display |-> displayCount + 1]}
    /\ displayCount' = displayCount + 1
    /\ UNCHANGED highlight

\* searchCard after its awaits: the cheapest printing is displayed and the
\* printings are listed in the sidebar
SearchSucceeds ==
    /\ pc = "searching"
    /\ \E found \in (SUBSET SearchPrintings) \ {{}} :
          \E c \in found :
              /\ DisplayCard(c)
              /\ sidebar' = found
    /\ pc' = "ready"
    /\ UNCHANGED <<deck, server, kebab, urls, deckText, extract>>

\* searchCard when the card is not found or has no printings: showError
SearchFails ==
    /\ pc = "searching"
    /\ pc' = "ready"
    /\ UNCHANGED <<deck, aside>>

\* The click handler of a printing item in the sidebar
ClickPrinting ==
    /\ pc = "ready"
    /\ displayCount < MaxDisplays
    /\ \E c \in sidebar : DisplayCard(c)
    /\ UNCHANGED <<deck, server, kebab, urls, deckText, extract, sidebar, pc>>

\* The callback of fetchAllStorePrices(card).then: updateStorePriceDisplays
\* and sortStoresByPrice with the prices fetched for that card
PricesArrive ==
    /\ pc \in {"ready", "searching"}
    /\ \E p \in pendingPrices : \E priceData \in PriceData :
          /\ pendingPrices' = pendingPrices \ {p}
          /\ priceCells' = [of |-> <<p.card>>, cells |-> UpdatedCells(priceData)]
          /\ links' = [links EXCEPT !.order = SortedStores(priceData)]
          /\ highlight' = [of |-> <<p.card>>, store |-> CheapestOf(priceData)]
    /\ UNCHANGED <<deck, server, kebab, urls, deckText, extract, sidebar,
                   displayCount, pc>>

InitSearch ==
    /\ DeckIdle
    /\ ServerIdle
    /\ KebabIdle
    /\ UrlsIdle
    /\ deckText = <<>>
    /\ ExtractIdle
    /\ SearchIdle
    /\ pc = "ready"

NextSearch == SearchClick \/ SearchSucceeds \/ SearchFails \/ ClickPrinting \/ PricesArrive

SpecSearch == InitSearch /\ [][NextSearch]_vars

-----------------------------------------------------------------------------
(* Pricing one line and evaluating a deck *)

StoreIndex(key) == CHOOSE i \in 1..Len(getStoreKeys) : getStoreKeys[i] = key

HasPrice(entry) == "price" \in DOMAIN entry

\* The result of the line that was recorded last
LastResult == results[Len(results)]

\* C1: in every result with at least one priced store quote, the store
\* reported as cheapest carries a price no other quote undercuts, and among
\* the stores sharing that price it is the first in store order.
C1_CheapestStoreIsMinimum ==
    \A n \in 1..Len(results) :
        LET r == results[n]
        IN  ("allStorePrices" \in DOMAIN r
                /\ \E key \in StoreSet : HasPrice(r.allStorePrices[key])) =>
            /\ {"store", "price"} \subseteq DOMAIN r
            /\ r.store \in StoreSet
            /\ HasPrice(r.allStorePrices[r.store])
            /\ r.price = r.allStorePrices[r.store].price
            /\ \A key \in StoreSet :
                   HasPrice(r.allStorePrices[key]) =>
                       /\ r.price <= r.allStorePrices[key].price
                       /\ r.price = r.allStorePrices[key].price =>
                              StoreIndex(r.store) <= StoreIndex(key)

C1_Witness ==
    /\ pc = "done" /\ Len(results) = 1
    /\ "store" \in DOMAIN results[1]
    /\ results[1].store = "hoc"
    /\ results[1].allStorePrices =
           [key \in StoreSet |-> [price |-> IF key = "f2f" THEN 2 ELSE 1, url |-> key]]

\* C2: when the call of every store returns no quote, the result recorded
\* for the line carries the error "No prices found", no price, store or url,
\* and an error entry (never a price) for every store key.
C2_AllStoresFail ==
    [][(/\ pc = "stores" /\ pc' # "stores"
        /\ \A c \in calls : c.line = CurrentLine => c.value = NoValue) =>
         LET r == results'[Len(results')]
         IN  /\ "error" \in DOMAIN r /\ r.error = "No prices found"
             /\ DOMAIN r \cap {"price", "store", "url"} = {}
             /\ "allStorePrices" \in DOMAIN r
             /\ DOMAIN r.allStorePrices = StoreSet
             /\ \A key \in StoreSet : DOMAIN r.allStorePrices[key] = {"error"}]_vars

C2_Witness ==
    /\ pc = "done" /\ Len(results) = 1 /\ issued > Len(getStoreKeys)
    /\ "error" \in DOMAIN results[1] /\ results[1].error = "No prices found"
    /\ \A key \in StoreSet : ~HasPrice(results[1].allStorePrices[key])

\* C7: an empty catalog answer gives the error "Card not found", a non-empty
\* answer emptied by the exclude-special filter gives "No standard printings
\* found", neither gives the other error, and in both cases no store request
\* is issued for the line.
C7_DistinctLookupErrors ==
    pc \in {"delay", "done"} =>
        LET r == LastResult
            notFound == Len(printings) = 0
            allRemoved == /\ Len(printings) > 0 /\ excludeSpecial
                          /\ \A i \in 1..Len(printings) : hasSpecialFrameEffect(printings[i])
            errorOf == IF "error" \in DOMAIN r THEN r.error ELSE ""
        IN  /\ notFound <=> errorOf = "Card not found"
            /\ allRemoved <=> errorOf = "No standard printings found"
            /\ (notFound \/ allRemoved) =>
                   issued = 0 /\ calls = {} /\ "allStorePrices" \notin DOMAIN r

C7_Witness ==
    /\ pc = "done" /\ Len(results) = 2
    /\ "error" \in DOMAIN results[1] /\ results[1].error = "Card not found"
    /\ "error" \in DOMAIN results[2] /\ results[2].error = "No standard printings found"
    /\ Len(printings) = 1

\* C8: every store call that exists belongs to the line being priced, so no
\* store request of a line outlives it into the delay, the next catalog
\* lookup or the next line's store requests; and the lookup of a line is only
\* in flight after one delay has elapsed for every line before it.
C8_LinesStrictlySequential ==
    /\ \A c \in calls : pc = "stores" /\ c.line = CurrentLine
    /\ pc \in {"lookup", "stores"} => delays = Len(results)

C8_Witness ==
    /\ pc = "stores" /\ CurrentLine = 2 /\ delays = 1
    /\ \E c \in calls : c.phase = "fetch" /\ c.retryCount = 1
    /\ \E c \in calls : c.phase = "settled"
    /\ "allStorePrices" \in DOMAIN results[1]

\* C9: a delay runs only after a recorded result that is not the last one,
\* one delay has elapsed per earlier line when a line starts, and a finished
\* evaluation of n lines has seen n-1 delays.
C9_DelayBetweenLinesOnly ==
    /\ pc = "delay" => delays = Len(results) - 1 /\ Len(results) < Len(filteredCards)
    /\ pc \in {"lookup", "stores"} => delays = CurrentLine - 1
    /\ pc = "done" => Len(results) = Len(filteredCards) /\ delays = Len(filteredCards) - 1

C9_Witness ==
    /\ pc = "done" /\ Len(filteredCards) = 2 /\ delays = 1

\* The deck lines the basic-land filter keeps
Surviving ==
    SelectSeq(cards, LAMBDA line : ~(excludeBasicLands /\ isBasicLand(line.name)))

\* C10: a finished evaluation has one result per deck line the basic-land
\* filter keeps (every line when it is off), in input order, each with the
\* name and quantity of its line.
C10_OneResultPerSurvivingLine ==
    pc = "done" =>
        /\ displayed = results
        /\ Len(results) = Len(Surviving)
        /\ \A n \in 1..Len(results) :
               /\ results[n].name = Surviving[n].name
               /\ results[n].quantity = Surviving[n].quantity

C10_Witness ==
    /\ pc = "done" /\ excludeBasicLands
    /\ Len(cards) = 2 /\ cards[1].name = Island /\ cards[2].name = Opt
    /\ Len(results) = 1 /\ "error" \in DOMAIN results[1]

\* The entry evaluateDeck records for a line without a usable printing
ErrorEntry(card, err) == [name |-> card.name, quantity |-> card.quantity, error |-> err]

\* C11: when the catalog answer of a line is empty (lookup failed or no
\* printings) or is emptied by the filter, the entry recorded for the line
\* carries only its name, its quantity and the error, and the evaluation goes
\* on with the delay before the next line (or ends after the last line); a
\* finished evaluation has an entry for every line.
C11_FailedLineDoesNotAbort ==
    /\ [](pc = "done" => Len(results) = Len(filteredCards))
    /\ [][(pc = "lookup" /\ LineError(printings', excludeSpecial) # "") =>
            /\ results' = Append(results,
                                 ErrorEntry(filteredCards[CurrentLine],
                                            LineError(printings', excludeSpecial)))
            /\ pc' = IF CurrentLine < Len(filteredCards) THEN "delay" ELSE "done"]_vars

C11_Witness ==
    /\ pc = "done" /\ Len(cards) = 3 /\ Len(results) = 3
    /\ results[2] = ErrorEntry(cards[2], "Card not found")
    /\ \A n \in {1, 3} :
           /\ {"price", "store", "allStorePrices"} \subseteq DOMAIN results[n]
           /\ results[n].name = cards[n].name

\* The displayed lines that carry a price for the store
PricedLines(key) ==
    {n \in 1..Len(displayed) :
        /\ "allStorePrices" \in DOMAIN displayed[n]
        /\ HasPrice(displayed[n].allStorePrices[key])}

RECURSIVE SumOfLines(_, _)
SumOfLines(ns, key) ==
    IF ns = {} THEN 0
    ELSE LET n == CHOOSE m \in ns : TRUE
         IN  displayed[n].allStorePrices[key].price * displayed[n].quantity
                 + SumOfLines(ns \ {n}, key)

\* C12: after an evaluation the total of every store is the sum of price
\* times quantity over exactly the lines that carry a price for that store;
\* lines without printings and error entries add nothing.
C12_StoreTotals ==
    pc = "done" =>
        /\ DOMAIN storeTotals = StoreSet
        /\ \A key \in StoreSet : storeTotals[key] = SumOfLines(PricedLines(key), key)

C12_Witness ==
    /\ pc = "done" /\ Len(displayed) = 3
    /\ "allStorePrices" \notin DOMAIN displayed[2]
    /\ PricedLines("f2f") = {1, 3} /\ PricedLines("hoc") = {3} /\ PricedLines("401games") = {}
    /\ storeTotals = [key \in StoreSet |->
                         IF key = "f2f" THEN displayed[1].quantity + displayed[3].quantity
                         ELSE IF key = "hoc" THEN displayed[3].quantity ELSE 0]

\* The answer fetch(url) gives is a rate-limit response
RateLimited(resp) == resp.kind = "http" /\ resp.status = 429

\* The number of rate-limit responses the stores have given so far
RateLimitAnswers == MaxThrottleLine - throttleLeft

\* C13: fetchStorePrice goes on to a further request only from a 429 answer.
\* Every other answer (404, 504, 500, network error, 200 without a price)
\* settles the call at once with the request count it had, a settled call
\* issues nothing more, and while no store has answered 429 every call has
\* made exactly one request.
C13_RetryOnlyAfterRateLimit ==
    /\ [](pc = "stores" =>
            /\ \A key \in StoreSet : \A resp \in Responses(key) : \A n \in 0..maxRetries :
                   FetchOutcome(resp, n).kind = "retry" => RateLimited(resp)
            /\ RateLimitAnswers = 0 =>
                   /\ issued = Len(getStoreKeys)
                   /\ \A c \in calls : c.retryCount = 0 /\ c.phase # "backoff")
    /\ [][\A c \in calls :
            /\ (c.phase = "fetch" /\ c \notin calls' /\ throttleLeft' = throttleLeft) =>
                   /\ issued' = issued
                   /\ \E d \in calls' : d = [c EXCEPT !.phase = "settled", !.value = d.value]
            /\ (c.phase = "settled" /\ pc' = "stores") => c \in calls']_vars

C13_Witness ==
    /\ pc = "stores" /\ RateLimitAnswers = 0 /\ issued = Len(getStoreKeys)
    /\ \A c \in calls : c.phase = "settled" /\ c.retryCount = 0
    /\ \E c \in calls : c.value = NoValue
    /\ \E c \in calls : c.value # NoValue

\* The values fetchStorePrice can return from its current request
Returnable(c) ==
    {FetchOutcome(resp, c.retryCount).value :
        resp \in {r \in Responses(c.store) : FetchOutcome(r, c.retryCount).kind = "return"}}

\* C14: the waits of one call are 1, 2 and 4 times the base delay, in that
\* order, one before each repeated request; the fourth request follows
\* three of them, and a price answer to it is what the call returns.
C14_BackoffDoubles ==
    /\ [](\A c \in calls :
            /\ Len(c.waits) = c.retryCount
            /\ c.waits = SubSeq(<<BaseDelayMs, 2 * BaseDelayMs, 4 * BaseDelayMs>>,
                                1, c.retryCount)
            /\ \A i \in 2..Len(c.waits) : c.waits[i] = 2 * c.waits[i - 1]
            /\ c.phase = "backoff" =>
                   c.delayMs = IF c.waits = <<>> THEN BaseDelayMs
                               ELSE 2 * c.waits[Len(c.waits)]
            /\ \A resp \in Responses(c.store) :
                   (resp.kind = "http" /\ Ok(resp) /\ "price" \in DOMAIN resp.body) =>
                       FetchOutcome(resp, maxRetries) =
                           [kind |-> "return",
                            value |-> [price |-> resp.body.price, url |-> resp.body.url]])
    /\ [][\A c \in calls :
            (c.phase = "fetch" /\ c.retryCount = maxRetries /\ c \notin calls') =>
                \E d \in calls' :
                    /\ d = [c EXCEPT !.phase = "settled", !.value = d.value]
                    /\ d.value \in Returnable(c)]_vars

C14_Witness ==
    /\ pc = "stores"
    /\ \E c \in calls :
           /\ c.store = "hoc" /\ c.phase = "settled" /\ c.retryCount = maxRetries
           /\ c.waits = <<BaseDelayMs, 2 * BaseDelayMs, 4 * BaseDelayMs>>
           /\ c.value = [price |-> 2, url |-> "hoc"]
    /\ RateLimitAnswers = maxRetries

\* C15: a call makes at most maxRetries + 1 requests; a 429 answer to the
\* last of them settles the call without a quote and without a further
\* request; the line's pricing always completes, and every quote another
\* store returned is in the result recorded for the line.
C15_RetriesBounded ==
    /\ [](\A c \in calls :
            /\ c.retryCount + 1 <= maxRetries + 1
            /\ c.phase = "backoff" => c.retryCount < maxRetries)
    /\ [][\A c \in calls :
            (/\ c.phase = "fetch" /\ c.retryCount = maxRetries
             /\ c \notin calls' /\ throttleLeft' < throttleLeft) =>
                /\ [c EXCEPT !.phase = "settled"] \in calls'
                /\ issued' = issued]_vars
    /\ [][(pc = "stores" /\ pc' # "stores") =>
            \A c \in calls :
                c.value # NoValue =>
                    results'[Len(results')].allStorePrices[c.store] = c.value]_vars
    /\ (pc = "stores") ~> (pc = "done")

C15_Witness ==
    /\ pc = "done" /\ Len(results) = 1
    /\ issued = Len(getStoreKeys) + maxRetries
    /\ RateLimitAnswers = maxRetries + 1
    /\ ~HasPrice(results[1].allStorePrices["hoc"])
    /\ HasPrice(results[1].allStorePrices["f2f"])
    /\ HasPrice(results[1].allStorePrices["401games"])

\* The failure kind of an answer of fetch(url), "none" when it is not one of
\* the four: 404 not-found, 429 rate-limited, 504 timeout, and status 200
\* without a price (the page was fetched, no price was extracted)
FailureKind(resp) ==
    IF resp.kind # "http" THEN "none"
    ELSE IF resp.status = 404 THEN "not-found"
    ELSE IF resp.status = 429 THEN "rate-limited"
    ELSE IF resp.status = 504 THEN "timeout"
    ELSE IF Ok(resp) /\ "price" \notin DOMAIN resp.body THEN "parse-failure"
    ELSE "none"

\* The failure kinds whose answer makes fetchStorePrice return what c returned
KindsYielding(c) ==
    {FailureKind(resp) :
        resp \in {r \in Responses(c.store) :
                     FetchOutcome(r, c.retryCount) = [kind |-> "return", value |-> c.value]}}
    \ {"none"}

\* C16 (as claimed): the value a store call returns (the entry of the store
\* in allStorePrices is computed from it alone) belongs to one failure kind
\* only, so the caller can tell not-found, rate-limited, timeout and
\* parse-failure apart.
C16_FailureKindsDistinct ==
    \A c \in calls : c.phase = "settled" => Cardinality(KindsYielding(c)) <= 1

\* The scraper found a price on the product page
LookupSucceeded == upstream.kind = "page" /\ TruthyPrice(upstream.found)

\* The status the claim assigns to a failed lookup
ClaimedStatus ==
    IF upstream.kind = "error" /\ "response" \in DOMAIN upstream
          /\ upstream.response.status = 404 THEN 404
    ELSE IF upstream.kind = "error" /\ upstream.code \in {"ECONNABORTED", "ETIMEDOUT"}
    THEN 504
    ELSE 500

\* C17 (as claimed): a successful lookup is answered with price, currency,
\* store and url; a failed one with an error body and status 404 (page not
\* found), 504 (timeout) or 500 (anything else, a page without an
\* extractable price included).
C17_StatusReflectsFailure ==
    pc = "replied" =>
        IF LookupSucceeded
        THEN /\ DOMAIN res.body = {"price", "currency", "store", "url"}
             /\ res.status = 200
        ELSE /\ "error" \in DOMAIN res.body
             /\ res.status = ClaimedStatus

\* C18: the first requests to all stores are issued in one step, before any
\* of them has settled; while the caller is suspended there is exactly one
\* call per store, and a call that has settled keeps its value whatever the
\* other calls do; the caller resumes only when every call has settled, and
\* the result then holds every quote that was returned.
C18_StoresQueriedTogether ==
    /\ [](pc = "stores" =>
            /\ {c.store : c \in calls} = StoreSet
            /\ Cardinality(calls) = Len(getStoreKeys))
    /\ [][(pc = "lookup" /\ pc' = "stores") =>
            /\ calls' = {NewCall(CurrentLine, key) : key \in StoreSet}
            /\ \A c \in calls' : c.phase = "fetch"]_vars
    /\ [][(pc = "stores" /\ pc' = "stores") =>
            \A c \in calls : c.phase = "settled" => c \in calls']_vars
    /\ [][(pc = "stores" /\ pc' # "stores") =>
            /\ \A c \in calls : c.phase = "settled"
            /\ \A key \in StoreSet :
                   \E c \in calls :
                       /\ c.store = key
                       /\ IF c.value = NoValue
                          THEN ~HasPrice(results'[Len(results')].allStorePrices[key])
                          ELSE results'[Len(results')].allStorePrices[key] = c.value]_vars

C18_Witness ==
    /\ pc = "stores"
    /\ \E c \in calls : c.store = "f2f" /\ c.phase = "settled" /\ c.value = NoValue
    /\ \E c \in calls : c.store = "hoc" /\ c.phase = "settled" /\ c.value # NoValue
    /\ \E c \in calls : c.store = "401games" /\ c.phase = "backoff"
                            /\ c.retryCount = maxRetries - 1

\* C19 (as claimed): deriving the slug of a slug gives the same slug, also
\* for names with the separator "//" next to an empty or punctuation-only face.
C19_SlugIdempotent ==
    pc = "reslugged" => slug = str

\* C20 (as claimed): a slug consists of lower-case letters, digits and
\* hyphens, does not begin or end with a hyphen and has no two hyphens in a
\* row, also for names joined by "//".
C20_SlugWellFormed ==
    pc = "slugged" =>
        /\ \A i \in 1..Len(slug) : slug[i] \in Alnum \cup {"-"}
        /\ Len(slug) > 0 => slug[1] # "-" /\ slug[Len(slug)] # "-"
        /\ \A i \in 1..(Len(slug) - 1) : ~(slug[i] = "-" /\ slug[i + 1] = "-")

\* C21: the token is the one the store table gives: retro is renamed for
\* f2f and 401games only (so f2f and hoc get different tokens for it),
\* future-frame is store-specific and dropped for 401games, white-border is
\* dropped for 401games only, and everything else, an unknown store
\* included, is returned unchanged.
C21_NormalizeTable ==
    pc = "detect" =>
        /\ normalizedEffect =
               (IF frameEffect = <<"retro">> /\ storeKey \in {"f2f", "401games"}
                THEN <<"retro-frame">>
                ELSE IF frameEffect = <<"future-frame">> /\ storeKey = "hoc"
                THEN <<"future-sight">>
                ELSE IF frameEffect \in {<<"future-frame">>, <<"white-border">>}
                        /\ storeKey = "401games"
                THEN NoValue
                ELSE frameEffect)
        /\ normalizeFrameEffect(<<"retro">>, "f2f") # normalizeFrameEffect(<<"retro">>, "hoc")

C21_Witness ==
    /\ pc = "detect" /\ frameEffect = <<"retro">> /\ storeKey = "hoc"
    /\ normalizedEffect = <<"retro">>

\* The special cases of frame era and border colour a printing has
SpecialCases(c) ==
    (IF c.frame = "future" THEN {<<"future-frame">>} ELSE {})
    \cup (IF c.frame = "1997" /\ Includes(c.promo_types, "boosterfun")
          THEN {<<"retro">>} ELSE {})
    \cup (IF c.border_color = "white" THEN {<<"white-border">>} ELSE {})

\* C22 (as claimed): a printing with a special case of frame era or border
\* colour gets that special case as descriptor even when its first frame
\* effect is a recognised one, and effects after the first never matter.
C22_SpecialCasesFirst ==
    pc = "api" =>
        /\ (/\ SpecialCases(urlCard) # {}
            /\ Len(urlCard.frame_effects) > 0
            /\ urlCard.frame_effects[1] \in {"extendedart", "showcase", "borderless"}) =>
               frameEffect \in SpecialCases(urlCard)
        /\ frameEffect =
               detectFrameEffect([urlCard EXCEPT !.frame_effects =
                                     IF Len(@) = 0 THEN @ ELSE <<@[1]>>])

\* C27 (as claimed): for each of the three stores the API URL matches a
\* server route, and the page that route fetches is the direct store URL.
C27_ApiRouteMatchesDirectUrl ==
    (pc = "built" /\ storeKey \in StoreSet) =>
        /\ scrapeUrl # NoValue
        /\ scrapeUrl = directUrl

\* C23 (as claimed): a price carried by the value of a store call or by an
\* allStorePrices entry is greater than 0, whatever the endpoint answered.
C23_QuotesArePositive ==
    /\ \A c \in calls : c.value # NoValue => c.value.price > 0
    /\ \A n \in 1..Len(results) :
           "allStorePrices" \in DOMAIN results[n] =>
               \A key \in StoreSet :
                   HasPrice(results[n].allStorePrices[key]) =>
                       results[n].allStorePrices[key].price > 0


\* The non-blank lines of the deck list, trimmed, in input order
NonBlankLines == SelectSeq([n \in 1..Len(SplitLines(deckText, 1, 1)) |->
                               trim(SplitLines(deckText, 1, 1)[n])],
                           LAMBDA l : l # <<>>)

\* The ways of reading a trimmed line as integer, optional "x", whitespace, name
QuantityForms(l) ==
    {f \in {[digits |-> d, x |-> e, spaces |-> w] :
                d \in 1..Len(l), e \in {0, 1}, w \in 1..Len(l)} :
        /\ f.digits + f.x + f.spaces < Len(l)
        /\ \A k \in 1..f.digits : l[k] \in Digits
        /\ f.x = 1 => l[f.digits + 1] \in {"x", "X"}
        /\ \A k \in 1..f.spaces : l[f.digits + f.x + k] = " "
        /\ l[f.digits + f.x + f.spaces + 1] # " "}

StorefrontThrottled ==
    /\ upstream.kind = "error"
    /\ "response" \in DOMAIN upstream
    /\ upstream.response.status = 429

\* C26 (as claimed): when the storefront answers the scrape with HTTP 429,
\* the reply of the pricing endpoint is one that fetchStorePrice retries
\* after a backoff; the rate limit is not turned into a failure that
\* fetchStorePrice gives up on.
C26_RateLimitPassedOn ==
    (pc = "replied" /\ StorefrontThrottled) =>
        FetchOutcome([kind |-> "http", status |-> res.status, body |-> res.body],
                     0).kind = "retry"

\* The Near Mint variants of the page in the order the extraction visits
\* them: the typed scripts first, then the inline scripts
NearMintInOrder ==
    SelectSeq(VariantsOf(page, "json", 1) \o VariantsOf(page, "json", 2)
                  \o VariantsOf(page, "inline", 1) \o VariantsOf(page, "inline", 2),
              LAMBDA v : IsNearMint(v.title))

\* The rule of the claim, in hundredths: divided by 100 only above the threshold
ClaimedPrice(raw) == IF raw > MinorThreshold THEN raw ELSE raw * MinorPerMajor

\* C25 (as claimed): the price of the matching Near Mint variant is divided
\* by 100 only when it exceeds the threshold and is returned unchanged
\* otherwise, whichever strategy found the variant; when no variant label
\* matches, the page-level metadata price is returned instead.
C25_MinorUnitsRule ==
    pc = "extracted" =>
        /\ (NearMintInOrder # <<>> /\ NearMintInOrder[1].price # 0) =>
               nearMintPrice = <<ClaimedPrice(NearMintInOrder[1].price)>>
        /\ NearMintInOrder = <<>> =>
               nearMintPrice = (IF page.metaPrice = <<>> THEN <<>>
                                ELSE <<page.metaPrice[1] * MinorPerMajor>>)

\* C28 (as claimed): on the search page, once every outstanding price
\* request has settled, the store prices and the cheapest-store highlight
\* shown were fetched for the card the store links point at, the card
\* displayed last; a late response for an earlier card does not overwrite
\* the prices of the current card.
C28_PricesBelongToShownCard ==
    (links.show /\ pendingPrices = {}) =>
        /\ priceCells.of = links.card
        /\ highlight.of = links.card

\* An evaluation has passed its input checks and has not yet displayed its results
InProgress == pc \in {"lookup", "stores", "delay"}

\* C29: at most one deck evaluation is in progress at any time: while an
\* evaluation is in progress the evaluate button is disabled, and no click
\* starts an evaluation during that time.
C29_OneEvaluationAtATime ==
    /\ [](InProgress => disabled)
    /\ [][InProgress => ~Click]_vars

\* An evaluation in progress, awaiting the stores, with the button disabled
C29_Witness ==
    /\ InProgress
    /\ disabled
    /\ \E c \in calls : c.phase = "fetch"

\* C30: when every catalog lookup and every store request settles, every
\* evaluation that disabled the evaluate button displays a result for each
\* of its lines and enables the button again.
C30_EvaluationEnds ==
    disabled ~> (/\ ~disabled
                 /\ pc = "done"
                 /\ Len(displayed) = Len(filteredCards))

\* An evaluation has ended with the button enabled although the catalog
\* lookup of one line failed and a store request of the other was rejected
C30_Witness ==
    /\ pc = "done"
    /\ ~disabled
    /\ Len(displayed) = 2
    /\ \E n \in 1..2 : "error" \in DOMAIN displayed[n]
    /\ \E n \in 1..2 : "allStorePrices" \in DOMAIN displayed[n]
                          /\ \E key \in StoreSet : ~HasPrice(displayed[n].allStorePrices[key])

====
